---- MODULE Spec2Model ----
(***************************************************************************)
(* Model of src/src/exchanges/okx.rs: the OKX signed-REST client.          *)
(*                                                                         *)
(* Strings that take part in concatenation or encoding (method, endpoint,  *)
(* query string, body string, timestamp, URL) are sequences of             *)
(* one-character strings, so that format!/percent-encoding/JSON encoding   *)
(* are computed character by character.  Strings that are only compared    *)
(* (credentials, response texts, header names) are TLA+ strings.           *)
(***************************************************************************)
EXTENDS Integers, Sequences, FiniteSets, TLC

\* ------------------------------------------------------------------ bounds
\* number of call slots (futures of one client that may be alive at once)
MaxCalls == 2
\* the wall clock runs over milliseconds 0..MaxClock of one second
MaxClock == 2

Calls == 1..MaxCalls

\* ----------------------------------------------------------------- strings
GET == <<"G","E","T">>
POST == <<"P","O","S","T">>
BASE_URL == <<"h","t","t","p","s",":","/","/","w","w","w",".","o","k","x",".","c","o","m">>
BALANCE_ENDPOINT == <<"/","a","p","i","/","v","5","/","a","c","c","o","u","n","t","/","b","a","l","a","n","c","e">>
ORDER_ENDPOINT == <<"/","a","p","i","/","v","5","/","t","r","a","d","e","/","o","r","d","e","r">>
TS_PREFIX == <<"2","0","2","6","-","1","1","-","0","6","T","0","0",":","0","0",":","0","0",".">>

RECURSIVE Concat(_)
\* concatenation of a sequence of strings
Concat(parts) ==
    IF parts = <<>> THEN <<>> ELSE Head(parts) \o Concat(Tail(parts))

RECURSIVE Join(_, _)
\* the strings of parts, separated by sep
Join(parts, sep) ==
    IF parts = <<>> THEN <<>>
    ELSE IF Len(parts) = 1 THEN parts[1]
    ELSE parts[1] \o sep \o Join(Tail(parts), sep)

Digit(d) ==
    CASE d = 0 -> "0" [] d = 1 -> "1" [] d = 2 -> "2" [] d = 3 -> "3" [] d = 4 -> "4"
      [] d = 5 -> "5" [] d = 6 -> "6" [] d = 7 -> "7" [] d = 8 -> "8" [] d = 9 -> "9"

\* chrono: Utc::now().to_rfc3339_opts(SecondsFormat::Millis, true) for the
\* instant ms milliseconds into the modelled second: three zero-padded
\* millisecond digits and a trailing Z.
to_rfc3339_opts(ms) ==
    TS_PREFIX \o <<Digit((ms \div 100) % 10), Digit((ms \div 10) % 10), Digit(ms % 10)>> \o <<"Z">>

\* ------------------------------------------------- form_urlencoded / serde
\* bytes that form_urlencoded::byte_serialize leaves unchanged
Unreserved ==
    {"a","b","c","d","e","f","g","h","i","j","k","l","m","n","o","p","q","r","s","t",
     "u","v","w","x","y","z","A","B","C","D","E","F","G","H","I","J","K","L","M","N",
     "O","P","Q","R","S","T","U","V","W","X","Y","Z","0","1","2","3","4","5","6","7",
     "8","9","*","-",".","_"}

\* form_urlencoded::byte_serialize of one byte: unreserved bytes as they
\* are, space as +, every other byte as %XX (upper-case hex)
byte_serialize(ch) ==
    IF ch \in Unreserved THEN <<ch>>
    ELSE CASE ch = " " -> <<"+">>
           [] ch = "&" -> <<"%","2","6">>
           [] ch = "=" -> <<"%","3","D">>
           [] ch = "?" -> <<"%","3","F">>
           [] ch = "/" -> <<"%","2","F">>
           [] ch = "{" -> <<"%","7","B">>
           [] ch = "}" -> <<"%","7","D">>
           [] ch = "\"" -> <<"%","2","2">>
           [] ch = "\\" -> <<"%","5","C">>

RECURSIVE url_encode(_)
url_encode(str) ==
    IF str = <<>> THEN <<>> ELSE byte_serialize(Head(str)) \o url_encode(Tail(str))

\* form_urlencoded::Serializer::new(String::new()).extend_pairs(map).finish():
\* k=v pairs in the map's iteration order, joined by &
extend_pairs(map) ==
    Join([i \in 1..Len(map) |-> url_encode(map[i][1]) \o <<"=">> \o url_encode(map[i][2])], <<"&">>)

\* serde_json's string escaping for the characters of the model
json_escape_char(ch) ==
    CASE ch = "\"" -> <<"\\", "\"">>
      [] ch = "\\" -> <<"\\", "\\">>
      [] OTHER -> <<ch>>

RECURSIVE json_escape(_)
json_escape(str) ==
    IF str = <<>> THEN <<>> ELSE json_escape_char(Head(str)) \o json_escape(Tail(str))

json_string(str) == <<"\"">> \o json_escape(str) \o <<"\"">>

\* serde_json::to_string(&HashMap<String, String>): {"k":"v",...} in the
\* map's iteration order; it cannot fail for string keys and values
to_string(map) ==
    <<"{">> \o Join([i \in 1..Len(map) |-> json_string(map[i][1]) \o <<":">> \o json_string(map[i][2])], <<",">>) \o <<"}">>

\* Option<HashMap<String, String>>; a map is the sequence of its pairs in
\* iteration order
None == [some |-> FALSE, map |-> <<>>]
Some(map) == [some |-> TRUE, map |-> map]

\* lines 83-91
query_string_of(body) ==
    IF body.some THEN <<"?">> \o extend_pairs(body.map) ELSE <<>>

\* lines 93-99
body_string_of(method, body) ==
    IF method = POST
    THEN (IF body.some THEN to_string(body.map) ELSE <<>>)
    ELSE <<>>

\* -------------------------------------------------------------- Result
NoError == [src |-> "", fmt |-> "", args |-> <<>>]
Ok(v) == [ok |-> TRUE, val |-> v, err |-> NoError]
Err(e) == [ok |-> FALSE, val |-> <<>>, err |-> e]

\* anyhow!(fmt, args...): an ad-hoc error carrying the formatted message
anyhow(fmt, args) == [src |-> "anyhow", fmt |-> fmt, args |-> args]
\* a serde_json::Error (category Syntax or Data) converted by the ? operator
serde_error(category) == [src |-> "serde_json", fmt |-> category, args |-> <<>>]
\* a reqwest::Error converted by the ? operator
reqwest_error(stage) == [src |-> "reqwest", fmt |-> stage, args |-> <<>>]

\* ------------------------------------------------------ construction
\* sample configuration mappings (HashMap<String, String>)
Credentials == [key |-> "k1", secret |-> "s1", passphrase |-> "p1"]
Configs ==
    { Credentials,
      [key |-> "k1", secret |-> "s1", passphrase |-> "p1", is_demo |-> "true"],
      [key |-> "k1", secret |-> "s1", passphrase |-> "p1", is_demo |-> "false"],
      [key |-> "k1", secret |-> "s1", passphrase |-> "p1", is_demo |-> "TRUE"],
      [key |-> "k\n1", secret |-> "s1", passphrase |-> "p1"],
      [secret |-> "s1", passphrase |-> "p1", is_demo |-> "true"],
      [key |-> "k1", passphrase |-> "p1"],
      [key |-> "k1", secret |-> "s1"],
      [is_demo |-> "true"] }

NoClient == [key |-> "", secret |-> "", passphrase |-> "", base_url |-> <<>>, is_demo |-> FALSE]

\* <bool as FromStr>::from_str: exactly "true" and "false" parse
parse_bool(s) ==
    IF s = "true" THEN Ok(TRUE)
    ELSE IF s = "false" THEN Ok(FALSE)
    ELSE Err(anyhow("provided string was not true or false", <<>>))

\* the flag taken as set whenever the configuration has an is_demo entry
is_demo_present(cfg) == "is_demo" \in DOMAIN cfg

\* line 32: configs.get("is_demo").and_then(|s| s.parse::<bool>().ok()).unwrap_or(false)
is_demo_of(cfg) ==
    IF "is_demo" \in DOMAIN cfg
    THEN (IF parse_bool(cfg["is_demo"]).ok THEN parse_bool(cfg["is_demo"]).val ELSE FALSE)
    ELSE FALSE

\* OkxExchange::new without the three unwraps: a client is built from
\* whatever credentials the mapping has (used only as a changed variant)
new_lenient(cfg) ==
    Ok([key |-> IF "key" \in DOMAIN cfg THEN cfg["key"] ELSE "",
        secret |-> IF "secret" \in DOMAIN cfg THEN cfg["secret"] ELSE "",
        passphrase |-> IF "passphrase" \in DOMAIN cfg THEN cfg["passphrase"] ELSE "",
        base_url |-> BASE_URL,
        is_demo |-> is_demo_of(cfg)])

\* OkxExchange::new: Option::unwrap on an absent key/secret/passphrase
\* panics (modelled as Err, no instance); otherwise the instance
new(cfg) ==
    IF "key" \notin DOMAIN cfg THEN Err(anyhow("panic: Option::unwrap() on None", <<"key">>))
    ELSE IF "secret" \notin DOMAIN cfg THEN Err(anyhow("panic: Option::unwrap() on None", <<"secret">>))
    ELSE IF "passphrase" \notin DOMAIN cfg THEN Err(anyhow("panic: Option::unwrap() on None", <<"passphrase">>))
    ELSE Ok([key |-> cfg["key"], secret |-> cfg["secret"], passphrase |-> cfg["passphrase"],
             base_url |-> BASE_URL, is_demo |-> is_demo_of(cfg)])

\* ------------------------------------------------------------ signing
\* Hmac::<Sha256>::new_from_slice(key) / update(msg) / finalize(): the MAC
\* is kept as the term over its key and message (two MACs are equal
\* exactly when key and message are)
hmac_sha256(key, msg) == [mac |-> "HMAC-SHA256", key |-> key, msg |-> msg]

\* base64 STANDARD.encode: injective, kept as a term
base64_encode(bytes) == [b64 |-> bytes]

\* line 54: format!("{}{}{}{}{}", timestamp, method, url, query_string, body)
pre_hash_of(timestamp, method, url, query_string, body) ==
    Concat(<<timestamp, method, url, query_string, body>>)

\* generate_signature with the query string left out of the signed string
generate_signature_no_query(self, clock, method, url, query_string, body) ==
    LET timestamp == to_rfc3339_opts(clock)
    IN [signature |-> base64_encode(hmac_sha256(self.secret, Concat(<<timestamp, method, url, body>>))),
        timestamp |-> timestamp]

\* OkxExchange::generate_signature; clock is the value Utc::now() returns
generate_signature(self, clock, method, url, query_string, body) ==
    LET timestamp == to_rfc3339_opts(clock)
        pre_hash == pre_hash_of(timestamp, method, url, query_string, body)
    IN [signature |-> base64_encode(hmac_sha256(self.secret, pre_hash)),
        timestamp |-> timestamp]

\* ------------------------------------------------------------ headers
\* HeaderValue::from_str rejects control characters; of the sample
\* credentials only this one has one
has_control_char(s) == s \in {"k\n1"}

\* the unwraps of get_headers that can panic: key and passphrase
headers_panic(self) == has_control_char(self.key) \/ has_control_char(self.passphrase)

HeaderNames(self) ==
    {"Content-Type", "OK-ACCESS-KEY", "OK-ACCESS-SIGN", "OK-ACCESS-TIMESTAMP", "OK-ACCESS-PASSPHRASE"}
        \cup (IF self.is_demo THEN {"x-simulated-trading"} ELSE {})

\* -------------------------------------------------------------- state
VARIABLES
    configs,    \* the configuration mapping handed to OkxExchange::new
    built,      \* "pending" | "ok" | "panic": the outcome of OkxExchange::new
    client,     \* the OkxExchange instance (NoClient while there is none)
    now,        \* the wall clock, in milliseconds
    calls,      \* per call slot: position and locals of send_request / fetch_balances
    sig         \* two direct applications of generate_signature

vars == <<configs, built, client, now, calls, sig>>

\* get_headers that reads the clock again instead of using its argument
get_headers_fresh_timestamp(self, signature, timestamp) ==
    [h \in HeaderNames(self) |->
        CASE h = "Content-Type" -> "application/json"
          [] h = "OK-ACCESS-KEY" -> self.key
          [] h = "OK-ACCESS-SIGN" -> signature
          [] h = "OK-ACCESS-TIMESTAMP" -> to_rfc3339_opts(now)
          [] h = "OK-ACCESS-PASSPHRASE" -> self.passphrase
          [] h = "x-simulated-trading" -> "1"]

\* OkxExchange::get_headers (when none of its unwraps panics)
get_headers(self, signature, timestamp) ==
    [h \in HeaderNames(self) |->
        CASE h = "Content-Type" -> "application/json"
          [] h = "OK-ACCESS-KEY" -> self.key
          [] h = "OK-ACCESS-SIGN" -> signature
          [] h = "OK-ACCESS-TIMESTAMP" -> timestamp
          [] h = "OK-ACCESS-PASSPHRASE" -> self.passphrase
          [] h = "x-simulated-trading" -> "1"]

\* ----------------------------------------------------------- responses
\* sample response texts
T_BALANCES == "{\"code\":\"0\",\"data\":[{\"ccy\":\"BTC\",\"bal\":\"1.5\"}]}"
T_EMPTY_LIST == "{\"code\":\"0\",\"data\":[]}"
T_DATA_STRING == "{\"code\":\"0\",\"data\":\"not-an-array\"}"
T_DATA_OBJECT == "{\"code\":\"0\",\"data\":{\"ccy\":\"BTC\"}}"
T_NO_DATA == "{\"msg\":\"invalid key\"}"
T_NUMERIC_CODE == "{\"code\":0}"
T_HTML == "<html>"
Texts == {T_BALANCES, T_EMPTY_LIST, T_DATA_STRING, T_DATA_OBJECT, T_NO_DATA, T_NUMERIC_CODE, T_HTML}

\* sample status codes, on both sides of each end of the 2xx range
Statuses == {199, 200, 299, 300, 401}

\* serde_json::Value
JStr(s) == [t |-> "str", v |-> s]
JNum(n) == [t |-> "num", v |-> n]
JArr(a) == [t |-> "arr", v |-> a]
JObj(o) == [t |-> "obj", v |-> o]
Malformed == [t |-> "malformed", v |-> <<>>]

\* the JSON document each sample text denotes (what serde_json's parser
\* reads from it); T_HTML is not JSON
parse_json(text) ==
    CASE text = T_BALANCES ->
           JObj([code |-> JStr("0"), data |-> JArr(<<JObj([ccy |-> JStr("BTC"), bal |-> JStr("1.5")])>>)])
      [] text = T_EMPTY_LIST -> JObj([code |-> JStr("0"), data |-> JArr(<<>>)])
      [] text = T_DATA_STRING -> JObj([code |-> JStr("0"), data |-> JStr("not-an-array")])
      [] text = T_DATA_OBJECT -> JObj([code |-> JStr("0"), data |-> JObj([ccy |-> JStr("BTC")])])
      [] text = T_NO_DATA -> JObj([msg |-> JStr("invalid key")])
      [] text = T_NUMERIC_CODE -> JObj([code |-> JNum(0)])
      [] OTHER -> Malformed

\* a JSON value that deserializes as HashMap<String, String>
is_string_map(j) == j.t = "obj" /\ \A k \in DOMAIN j.v : j.v[k].t = "str"
string_map_of(j) == [k \in DOMAIN j.v |-> j.v[k].v]

\* line 114: serde_json::from_str::<HashMap<String, String>>(&text)
from_str(text) ==
    LET j == parse_json(text)
    IN IF j.t = "malformed" THEN Err(serde_error("syntax"))
       ELSE IF is_string_map(j) THEN Ok(string_map_of(j))
       ELSE Err(serde_error("data"))

\* line 143: serde_json::to_value(HashMap<String, String>)
to_value(map) == JObj([k \in DOMAIN map |-> JStr(map[k])])

\* line 147: serde_json::from_value::<Vec<HashMap<String, String>>>(data)
from_value(data) ==
    IF data.t = "arr" /\ \A i \in 1..Len(data.v) : is_string_map(data.v[i])
    THEN Ok([i \in 1..Len(data.v) |-> string_map_of(data.v[i])])
    ELSE Err(serde_error("data"))

\* StatusCode::is_success with the upper end of the range moved
is_success_below_400(status) == status >= 200 /\ status < 400

\* reqwest::StatusCode::is_success
is_success(status) == status >= 200 /\ status < 300

\* <StatusCode as Display>: the code, then its canonical reason
status_display(status) ==
    <<status,
      CASE status = 200 -> "OK"
        [] status = 300 -> "Multiple Choices"
        [] status = 401 -> "Unauthorized"
        [] OTHER -> "<unknown status code>">>

\* lines 113-123: the classification of a received status and text
classify(method, status, text) ==
    IF is_success(status)
    THEN from_str(text)
    ELSE Err(anyhow("{} request failed with status: {} and body: {}",
                    <<method, status_display(status), text>>))

\* lines 143-154: fetch_balances after send_request returned Ok(response)
balances_of(response) ==
    LET response_value == to_value(response)
    IN IF "data" \in DOMAIN response_value.v
       THEN (IF response_value.v["data"].t = "arr"
             THEN from_value(response_value.v["data"])
             ELSE Err(anyhow("Data is not an array.", <<>>)))
       ELSE Err(anyhow("No balance data found in the response.", <<>>))

\* lines 139-155: fetch_balances, given what send_request returned
fetch_balances(sent) == IF sent.ok THEN balances_of(sent.val) ELSE sent

\* ---------------------------------------------------------- call slots
NoSignature == base64_encode(<<>>)
NoWire == [method |-> <<>>, url |-> <<>>, headers |-> <<>>, body |-> None]

\* a slot no call occupies
IdleCall ==
    [pc |-> "idle", api |-> "", method |-> <<>>, endpoint |-> <<>>, body |-> None,
     query_string |-> <<>>, body_string |-> <<>>,
     encoded_signature |-> NoSignature, timestamp |-> <<>>, signs |-> 0,
     wire |-> NoWire, sends |-> 0,
     got |-> "none", status |-> 0, text |-> "", parsed |-> FALSE,
     result |-> Err(NoError), out |-> Err(NoError)]

\* sample parameter mappings (at most one pair, so that the iteration
\* order of the HashMap plays no role)
P_EMPTY == Some(<<>>)
P_CCY == Some(<< <<<<"c","c","y">>, <<"B","T","C">>>> >>)
P_AMP == Some(<< <<<<"k">>, <<"a","&","b">>>> >>)
Params == {None, P_EMPTY, P_CCY, P_AMP}
Methods == {GET, POST}
Endpoints == {ORDER_ENDPOINT}

Terminal(call) == call.pc \in {"success", "failed"}

\* the caller awaits each call before it makes the next one
Quiet(c) == \A d \in Calls \ {c} : calls[d].pc = "idle"

\* ------------------------------------------------------------- actions
\* OkxExchange::new(&configs)
New ==
    /\ built = "pending"
    /\ LET r == new(configs)
       IN /\ built' = IF r.ok THEN "ok" ELSE "panic"
          /\ client' = IF r.ok THEN r.val ELSE NoClient
    /\ UNCHANGED <<configs, now, calls, sig>>

\* the wall clock advances by a millisecond
Tick ==
    /\ now < MaxClock
    /\ now' = now + 1
    /\ UNCHANGED <<configs, built, client, calls, sig>>

\* send_request entered: lines 83-99 build the query string and the body
\* string (state Built)
Begin(c, api, method, endpoint, body) ==
    /\ built = "ok"
    /\ calls[c].pc = "idle"
    /\ calls' = [calls EXCEPT ![c] =
            [IdleCall EXCEPT !.pc = "built", !.api = api, !.method = method,
                             !.endpoint = endpoint, !.body = body,
                             !.query_string = query_string_of(body),
                             !.body_string = body_string_of(method, body)]]
    /\ UNCHANGED <<configs, built, client, now, sig>>

\* fetch_balances, lines 140-141: send_request("GET", endpoint, None)
FetchBalancesCall(c) == Begin(c, "fetch_balances", GET, BALANCE_ENDPOINT, None)

\* a direct call of send_request
SendRequestCall(c, Ms, Es, Ps) ==
    \E method \in Ms, endpoint \in Es, body \in Ps :
        Begin(c, "send_request", method, endpoint, body)

\* lines 101-102 (state Signed)
Sign(c) ==
    /\ calls[c].pc = "built"
    /\ LET call == calls[c]
           g == generate_signature(client, now, call.method, call.endpoint,
                                   call.query_string, call.body_string)
       IN calls' = [calls EXCEPT ![c] =
               [call EXCEPT !.pc = "signed", !.encoded_signature = g.signature,
                            !.timestamp = g.timestamp, !.signs = @ + 1]]
    /\ UNCHANGED <<configs, built, client, now, sig>>

\* lines 104-108: the headers and the URL are assembled and the request
\* is handed to the transport (state Sent); an unwrap of get_headers that
\* fails panics instead, and the call ends without a request
Send(c) ==
    /\ calls[c].pc = "signed"
    /\ LET call == calls[c]
           headers == get_headers(client, call.encoded_signature, call.timestamp)
           url == Concat(<<client.base_url, call.endpoint, call.query_string>>)
       IN calls' = [calls EXCEPT ![c] =
               IF headers_panic(client)
               THEN [call EXCEPT !.pc = "panic"]
               ELSE [call EXCEPT !.pc = "sent", !.sends = @ + 1,
                                 !.wire = [method |-> call.method, url |-> url,
                                           headers |-> headers, body |-> call.body]]]
    /\ UNCHANGED <<configs, built, client, now, sig>>

\* TransportError that goes back to Signed, so that the request is sent again
TransportErrorRetry(c) ==
    /\ calls[c].pc = "sent"
    /\ calls[c].sends < 2
    /\ calls' = [calls EXCEPT ![c] = [calls[c] EXCEPT !.pc = "signed", !.got = "error"]]
    /\ UNCHANGED <<configs, built, client, now, sig>>

\* line 109: the transport returns an error, which ? propagates
TransportError(c) ==
    /\ calls[c].pc = "sent"
    /\ LET r == Err(reqwest_error("send"))
       IN calls' = [calls EXCEPT ![c] =
               [calls[c] EXCEPT !.pc = "failed", !.got = "error", !.result = r,
                                !.out = IF calls[c].api = "fetch_balances" THEN fetch_balances(r) ELSE r]]
    /\ UNCHANGED <<configs, built, client, now, sig>>

\* lines 111-112: a response with a status arrives and reading its text
\* fails, which ? propagates
TextError(c, Ss) ==
    /\ calls[c].pc = "sent"
    /\ \E status \in Ss :
         LET r == Err(reqwest_error("text"))
         IN calls' = [calls EXCEPT ![c] =
                 [calls[c] EXCEPT !.pc = "failed", !.got = "status", !.status = status,
                                  !.result = r,
                                  !.out = IF calls[c].api = "fetch_balances" THEN fetch_balances(r) ELSE r]]
    /\ UNCHANGED <<configs, built, client, now, sig>>

\* lines 111-123: a response with status and text arrives and send_request
\* classifies it; for fetch_balances, lines 143-154 follow
Respond(c, Ss, Ts) ==
    /\ calls[c].pc = "sent"
    /\ \E status \in Ss, text \in Ts :
         LET r == classify(calls[c].method, status, text)
         IN calls' = [calls EXCEPT ![c] =
                 [calls[c] EXCEPT !.pc = IF r.ok THEN "success" ELSE "failed",
                                  !.got = "full", !.status = status, !.text = text,
                                  !.parsed = is_success(status),
                                  !.result = r,
                                  !.out = IF calls[c].api = "fetch_balances" THEN fetch_balances(r) ELSE r]]
    /\ UNCHANGED <<configs, built, client, now, sig>>

\* the call's future is dropped after it completed: nothing of it remains
Return(c) ==
    /\ calls[c].pc \in {"success", "failed", "panic"}
    /\ calls' = [calls EXCEPT ![c] = IdleCall]
    /\ UNCHANGED <<configs, built, client, now, sig>>

\* ------------------------------------------------------- specification
\* one client, constructed from any sample configuration, whose caller
\* awaits each call before the next
Init ==
    /\ configs \in Configs
    /\ built = "pending"
    /\ client = NoClient
    /\ now = 0
    /\ calls = [c \in Calls |-> IdleCall]
    /\ sig = <<>>

Next ==
    \/ New
    \/ Tick
    \/ \E c \in Calls : Quiet(c) /\ FetchBalancesCall(c)
    \/ \E c \in Calls : Quiet(c) /\ SendRequestCall(c, Methods, Endpoints, Params)
    \/ \E c \in Calls : Sign(c)
    \/ \E c \in Calls : Send(c)
    \/ \E c \in Calls : TransportError(c)
    \/ \E c \in Calls : TextError(c, Statuses)
    \/ \E c \in Calls : Respond(c, Statuses, Texts)
    \/ \E c \in Calls : Return(c)

Spec == Init /\ [][Next]_vars

\* --------------------------------------------- concurrent specification
\* one constructed client and calls that run concurrently in any
\* interleaving, over fewer inputs and responses
InitConc ==
    /\ configs \in {Credentials, [key |-> "k1", secret |-> "s1", passphrase |-> "p1", is_demo |-> "true"]}
    /\ built = "ok"
    /\ client = new(configs).val
    /\ now = 0
    /\ calls = [c \in Calls |-> IdleCall]
    /\ sig = <<>>

NextConc ==
    \/ Tick
    \/ \E c \in Calls : FetchBalancesCall(c)
    \/ \E c \in Calls : SendRequestCall(c, {POST}, Endpoints, {P_CCY})
    \/ \E c \in Calls : Sign(c)
    \/ \E c \in Calls : Send(c)
    \/ \E c \in Calls : TransportError(c)
    \/ \E c \in Calls : TextError(c, {200})
    \/ \E c \in Calls : Respond(c, {200, 401}, {T_NO_DATA})
    \/ \E c \in Calls : Return(c)

SpecConc == InitConc /\ [][NextConc]_vars

\* ------------------------------------------------ signing specification
\* generate_signature applied directly to two inputs
SigMethods == {GET, <<"G">>}
SigPaths == {<<"/","a">>, <<"E","T","/","a">>, <<"/","a","?","b">>}
SigQueries == {<<>>, <<"?","b">>}
SigBodies == {<<>>, <<"{","}">>}
SigSlots == {1, 2}

InitSig ==
    /\ configs = Credentials
    /\ built = "ok"
    /\ client = new(configs).val
    /\ now = 0
    /\ calls = [c \in Calls |-> IdleCall]
    /\ sig \in [SigSlots -> [method : SigMethods, url : SigPaths, query_string : SigQueries,
                             body : SigBodies, done : {FALSE}, timestamp : {<<>>},
                             signature : {NoSignature}]]

\* self.generate_signature(method, url, query_string, body) at the current instant
ApplySignature(i) ==
    /\ ~sig[i].done
    /\ LET g == generate_signature(client, now, sig[i].method, sig[i].url,
                                   sig[i].query_string, sig[i].body)
       IN sig' = [sig EXCEPT ![i] = [@ EXCEPT !.done = TRUE, !.timestamp = g.timestamp,
                                                !.signature = g.signature]]
    /\ UNCHANGED <<configs, built, client, now, calls>>

NextSig ==
    \/ Tick
    \/ \E i \in SigSlots : ApplySignature(i)

SpecSig == InitSig /\ [][NextSig]_vars

\* -------------------------------------------------------------- claims
RequiredKeys == {"key", "secret", "passphrase"}
BaseHeaderNames ==
    {"Content-Type", "OK-ACCESS-KEY", "OK-ACCESS-SIGN", "OK-ACCESS-TIMESTAMP", "OK-ACCESS-PASSPHRASE"}
SuccessRange == 200..299

\* the counters a call at each position has
Counted(call) ==
    /\ call.pc \in {"idle", "built"} => call.signs = 0 /\ call.sends = 0
    /\ call.pc \in {"signed", "panic"} => call.signs = 1 /\ call.sends = 0
    /\ call.pc \in {"sent", "success", "failed"} => call.signs = 1 /\ call.sends = 1
    /\ call.pc = "idle" => call = IdleCall

\* the steps of the linear lifecycle (and a call ended by a panic while
\* its headers are built, and the drop of a finished call)
LinearStep(before, after) ==
    \/ after = before
    \/ before.pc = "idle" /\ after.pc = "built"
    \/ before.pc = "built" /\ after.pc = "signed" /\ after.signs = before.signs + 1
                           /\ after.sends = before.sends
    \/ before.pc = "signed" /\ after.pc = "sent" /\ after.sends = before.sends + 1
                            /\ after.signs = before.signs
    \/ before.pc = "signed" /\ after.pc = "panic" /\ after.sends = before.sends
    \/ before.pc = "sent" /\ after.pc \in {"success", "failed"}
                          /\ after.sends = before.sends /\ after.signs = before.signs
    \/ before.pc \in {"success", "failed", "panic"} /\ after = IdleCall

\* C1: every call of send_request goes Built -> Signed -> Sent ->
\* (Success | Failed): it is signed exactly once and before the transport
\* is invoked, the transport is invoked at most once, a call that reached
\* Success or Failed invokes the transport no more, and nothing is carried
\* into a later call (the client is unchanged, a slot starts empty).
C1_LinearLifecycle ==
    [][ /\ \A c \in Calls : LinearStep(calls[c], calls'[c]) /\ Counted(calls'[c])
        /\ built = "ok" => client' = client ]_vars

\* C1 witness: a call failed after its one transport invocation, on a
\* response that was received
C1_Witness ==
    \E c \in Calls : calls[c].pc = "failed" /\ calls[c].got = "full"
                     /\ calls[c].sends = 1 /\ calls[c].signs = 1

\* a JSON document whose data field is an array of flat string objects
HasFlatDataArray(j) ==
    /\ j.t = "obj"
    /\ "data" \in DOMAIN j.v
    /\ j.v["data"].t = "arr"
    /\ \A i \in 1..Len(j.v["data"].v) :
          /\ j.v["data"].v[i].t = "obj"
          /\ \A k \in DOMAIN j.v["data"].v[i].v : j.v["data"].v[i].v[k].t = "str"

DataList(j) ==
    [i \in 1..Len(j.v["data"].v) |->
        [k \in DOMAIN j.v["data"].v[i].v |-> j.v["data"].v[i].v[k].v]]

\* a finished fetch_balances call that received a 2xx response with text
Fetched2xx(call) ==
    /\ call.api = "fetch_balances"
    /\ call.pc \in {"success", "failed"}
    /\ call.got = "full"
    /\ call.status \in SuccessRange

\* C2: for every 2xx response whose body is a JSON object with a data
\* array of flat string-to-string objects, fetch_balances returns Ok with
\* the list equal to that array.
C2_BalancesReturned ==
    \A c \in Calls :
        Fetched2xx(calls[c]) /\ HasFlatDataArray(parse_json(calls[c].text))
            => calls[c].out.ok /\ calls[c].out.val = DataList(parse_json(calls[c].text))

\* C3: for every response whose status is outside 2xx, send_request (and
\* so fetch_balances) returns an error, never Ok, the body is not parsed,
\* the request is not sent again, and the message carries the method, the
\* status code and the received body text verbatim.
C3_NonSuccessIsError ==
    \A c \in Calls :
        calls[c].pc \in {"success", "failed"} /\ calls[c].got \in {"status", "full"}
          /\ calls[c].status \notin SuccessRange
            => /\ calls[c].pc = "failed"
               /\ ~calls[c].result.ok /\ ~calls[c].out.ok
               /\ ~calls[c].parsed
               /\ calls[c].sends = 1
               /\ calls[c].got = "full" =>
                    /\ calls[c].out.err.src = "anyhow"
                    /\ calls[c].out.err.args[1] = calls[c].method
                    /\ calls[c].out.err.args[2][1] = calls[c].status
                    /\ calls[c].out.err.args[3] = calls[c].text

\* C3 witness: fetch_balances finished on a 401 with the body
\* {"msg":"invalid key"}
C3_Witness ==
    \E c \in Calls : /\ calls[c].api = "fetch_balances" /\ calls[c].pc = "failed"
                     /\ calls[c].got = "full" /\ calls[c].status = 401
                     /\ calls[c].text = T_NO_DATA

\* C4: in any interleaving of concurrent calls, the OK-ACCESS-TIMESTAMP
\* header of a request handed to the transport is the timestamp that
\* starts the canonical string signed for that same call, which was
\* signed once.
C4_TimestampIsTheSignedOne ==
    \A c \in Calls :
        calls[c].sends >= 1 =>
            /\ calls[c].signs = 1
            /\ calls[c].wire.headers["OK-ACCESS-SIGN"].b64.msg =
                  Concat(<<calls[c].wire.headers["OK-ACCESS-TIMESTAMP"], calls[c].method,
                           calls[c].endpoint, calls[c].query_string, calls[c].body_string>>)

\* C4 witness: two calls are in flight at once, signed at different
\* instants, the clock having advanced since both were signed
C4_Witness ==
    \E c, d \in Calls :
        /\ calls[c].pc = "sent" /\ calls[d].pc = "sent"
        /\ calls[c].timestamp # calls[d].timestamp
        /\ to_rfc3339_opts(now) \notin {calls[c].timestamp, calls[d].timestamp}

\* C5: the parameters travel on one channel chosen by the method: for a
\* GET with parameters, in the query string only, no body signed or handed
\* to the transport; for a POST with parameters, as the JSON body and not
\* in the signed query string nor in the URL.
C5_OneChannel ==
    \A c \in Calls :
        calls[c].sends >= 1 /\ calls[c].body.some /\ calls[c].body.map # <<>> =>
            /\ calls[c].method = GET =>
                  /\ calls[c].body_string = <<>>
                  /\ ~calls[c].wire.body.some
            /\ calls[c].method = POST =>
                  /\ calls[c].query_string = <<>>
                  /\ calls[c].wire.url = Concat(<<client.base_url, calls[c].endpoint>>)

\* the five fields of a signing input
SigInput(i) ==
    <<sig[i].timestamp, sig[i].method, sig[i].url, sig[i].query_string, sig[i].body>>

\* the canonical string under a signature
Canonical(i) == sig[i].signature.b64.msg

UpperCase ==
    {"A","B","C","D","E","F","G","H","I","J","K","L","M","N","O","P","Q","R","S","T",
     "U","V","W","X","Y","Z"}

Has(str, ch) == \E n \in 1..Len(str) : str[n] = ch

\* a signing input as send_request makes it for an HTTP method and an
\* endpoint path: fixed-width timestamp, method of upper-case letters,
\* path from / without ? or {, query empty or from ? without {, body
\* empty or from {
WellFormed(i) ==
    /\ Len(sig[i].timestamp) = Len(to_rfc3339_opts(0))
    /\ \A n \in 1..Len(sig[i].method) : sig[i].method[n] \in UpperCase
    /\ sig[i].url # <<>> /\ sig[i].url[1] = "/"
    /\ ~Has(sig[i].url, "?") /\ ~Has(sig[i].url, "{")
    /\ sig[i].query_string = <<>> \/ (sig[i].query_string[1] = "?" /\ ~Has(sig[i].query_string, "{"))
    /\ sig[i].body = <<>> \/ sig[i].body[1] = "{"

\* C6 as stated: for a fixed secret, any two signing inputs that differ
\* in a field have different canonical strings and different signatures.
C6_AnyInputsDistinct ==
    sig # <<>> /\ sig[1].done /\ sig[2].done /\ SigInput(1) # SigInput(2)
        => Canonical(1) # Canonical(2) /\ sig[1].signature # sig[2].signature

\* C6 amended: for a fixed secret, two well-formed signing inputs that
\* differ in a field have different canonical strings and so different
\* MAC inputs.
C6_WellFormedInputsDistinct ==
    sig # <<>> /\ sig[1].done /\ sig[2].done /\ WellFormed(1) /\ WellFormed(2)
      /\ SigInput(1) # SigInput(2)
        => Canonical(1) # Canonical(2) /\ sig[1].signature # sig[2].signature

\* C6 witness: two well-formed inputs signed at the same instant that
\* differ in the query string only
C6_Witness ==
    /\ sig # <<>> /\ sig[1].done /\ sig[2].done /\ WellFormed(1) /\ WellFormed(2)
    /\ sig[1].timestamp = sig[2].timestamp /\ sig[1].method = sig[2].method
    /\ sig[1].url = sig[2].url /\ sig[1].body = sig[2].body
    /\ sig[1].query_string # sig[2].query_string

\* C7: for every 2xx response whose body has a data field that is not an
\* array, fetch_balances returns the shape error "Data is not an array."
\* as an error value, not Ok and not another error.
C7_ShapeError ==
    \A c \in Calls :
        /\ Fetched2xx(calls[c])
        /\ parse_json(calls[c].text).t = "obj"
        /\ "data" \in DOMAIN parse_json(calls[c].text).v
        /\ parse_json(calls[c].text).v["data"].t # "arr"
        => /\ ~calls[c].out.ok
           /\ calls[c].out.err = anyhow("Data is not an array.", <<>>)

\* C8: for every 2xx response whose JSON body has no data field,
\* fetch_balances returns the not-found error for the missing data, never
\* Ok and never another error.
C8_NotFoundError ==
    \A c \in Calls :
        /\ Fetched2xx(calls[c])
        /\ parse_json(calls[c].text).t = "obj"
        /\ "data" \notin DOMAIN parse_json(calls[c].text).v
        => /\ ~calls[c].out.ok
           /\ calls[c].out.err = anyhow("No balance data found in the response.", <<>>)

\* the sandbox flag as the configuration text states it
SandboxConfigured == "is_demo" \in DOMAIN configs /\ configs["is_demo"] = "true"

\* C9: the headers of every request handed to the transport are exactly
\* Content-Type: application/json, OK-ACCESS-KEY, OK-ACCESS-SIGN,
\* OK-ACCESS-TIMESTAMP and OK-ACCESS-PASSPHRASE, plus x-simulated-trading: 1
\* exactly when the configuration's is_demo is "true" (not when it is
\* false, absent or unparsable).
C9_HeaderSet ==
    \A c \in Calls :
        calls[c].sends >= 1 =>
            /\ DOMAIN calls[c].wire.headers =
                  BaseHeaderNames \cup (IF SandboxConfigured THEN {"x-simulated-trading"} ELSE {})
            /\ calls[c].wire.headers["Content-Type"] = "application/json"
            /\ calls[c].wire.headers["OK-ACCESS-KEY"] = configs["key"]
            /\ calls[c].wire.headers["OK-ACCESS-PASSPHRASE"] = configs["passphrase"]
            /\ calls[c].wire.headers["OK-ACCESS-SIGN"] = calls[c].encoded_signature
            /\ calls[c].wire.headers["OK-ACCESS-TIMESTAMP"] = calls[c].timestamp
            /\ SandboxConfigured => calls[c].wire.headers["x-simulated-trading"] = "1"

\* C9 witness: a request was handed to the transport by a client whose
\* configuration has is_demo set to "true"
C9_Witness ==
    \E c \in Calls : calls[c].sends = 1 /\ SandboxConfigured
                     /\ "x-simulated-trading" \in DOMAIN calls[c].wire.headers

\* C10: construction from a configuration that lacks key, secret or
\* passphrase fails at once: no instance is produced and no call, so no
\* transport invocation, is ever made for it.
C10_MissingCredentialFailsFast ==
    (\E k \in RequiredKeys : k \notin DOMAIN configs)
        => /\ built \in {"pending", "panic"}
           /\ client = NoClient
           /\ \A c \in Calls : calls[c] = IdleCall

\* C10 witness: construction was attempted without a secret and panicked
C10_Witness ==
    built = "panic" /\ "secret" \notin DOMAIN configs /\ "key" \in DOMAIN configs

====
